---- MODULE Spec2Model ----
(***************************************************************************)
(* Model of python/lib/diarization.py (class Diarization) and of the       *)
(* classifier interface it drives (python/lib/classifier.py).              *)
(*                                                                         *)
(*   SpecLoad   Diarization.load_ivecs, one manifest line per step         *)
(*   Spec       Diarization.score, then any sequence of dump_rttm/get_der  *)
(*   SpecEst    Diarization.get_num_speakers on one embedding set          *)
(*   SpecLabel  the arg-max labelling of dump_rttm and get_der             *)
(*                                                                         *)
(* Strings that the code takes apart (recording names) are sequences of    *)
(* one-character strings; the literal "beamformed" is one element.         *)
(* Python's None is the empty set and a present value x is {x}.            *)
(***************************************************************************)
EXTENDS Integers, Sequences, FiniteSets, TLC

VARIABLES
    input_list,   \* the manifest: the lines of self.input_list
    pkl,          \* ivecs_dir: id -> the pickled IvecSet stored as <id>.pkl
    lineno,       \* load_ivecs: index of the next manifest line
    yielded,      \* load_ivecs: the sets yielded so far (consumed by list())
    results,      \* history: what load_ivecs did with each line read
    warned,       \* the ids logwarning was called with in load_ivecs
    ivecs,        \* self.ivecs
    norm_list,    \* self.norm_list
    norm_ivecs,   \* self.norm_ivecs
    pc,           \* position of the program
    err,          \* the exception that ended the program, "none" otherwise
    pos,          \* index in self.ivecs of the loop of the running method
    scores_dict,  \* the score dictionary built and returned by score()
    status,       \* per recording: Loaded, Scored, Skipped or Failed
    calls,        \* history: clusterer, estimator and scorer invocations
    files,        \* names of the .rttm files opened for writing
    dirs,         \* directories created by Tools.mkdir_p
    est_in,       \* get_num_speakers: its arguments and the classifier
    est_out,      \* get_num_speakers: its outcome
    smat,         \* one recording's scores[name].T: row i = embedding i
    rttm,         \* labels written by dump_rttm, one per embedding
    hyp           \* labels put in the hypothesis by get_der

loadVars  == <<input_list, pkl, lineno, yielded, results, warned>>
scoreVars == <<norm_list, norm_ivecs, pos, scores_dict, status, calls,
               files, dirs>>
estVars   == <<est_in, est_out>>
labelVars == <<smat, rttm, hyp>>
vars == <<loadVars, ivecs, pc, err, scoreVars, estVars, labelVars>>

----------------------------------------------------------------------------
(* Bounds *)

MaxLines   == 2   \* manifest lines
MaxRecs    == 2   \* recordings in self.ivecs
MaxCand    == 3   \* largest max_speakers tried in SpecEst
MaxClasses == 4   \* most class columns of the classifier output
MaxEmb     == 2   \* embeddings of the labelled recording
MaxK       == 3   \* centroids of the labelled recording
MaxScore   == 1   \* scores are 0..MaxScore

----------------------------------------------------------------------------
(* Python values *)

None == {}
Some(x) == {x}
Val(o) == CHOOSE x \in o : TRUE

SeqsUpTo(S, n) == UNION {[1..m -> S] : m \in 0..n}

----------------------------------------------------------------------------
(* Manifest and pickle store *)

Ids == {"r1", "r2"}

IntLits == {"1", "2"}

\* int(token): defined on the integer literals, ValueError otherwise
int(tok) == CASE tok = "1" -> 1
              [] tok = "2" -> 2

\* a line after rstrip(): its whitespace-separated tokens (line.split()) and
\* whether whitespace precedes the first token
Lines ==
    {[lead |-> FALSE, toks |-> <<>>]}
    \cup {[lead |-> l, toks |-> <<id>>] : l \in BOOLEAN, id \in Ids}
    \cup {[lead |-> FALSE, toks |-> <<id, c>>] :
              id \in Ids, c \in IntLits \cup {"x"}}
    \cup {[lead |-> FALSE, toks |-> <<"r1", "2", "x">>]}

\* the name stored in the pickle of a manifest id
BlobName(id) == <<id>>

Blobs(id) == {[name |-> BlobName(id), num_speakers |-> None, size |-> s] :
                 s \in {0, 2}}

Stores == UNION {{f \in [S -> UNION {Blobs(id) : id \in S}] :
                     \A id \in S : f[id] \in Blobs(id)} : S \in SUBSET Ids}

NoSet == [name |-> <<>>, num_speakers |-> None, size |-> 0]

\* open(os.path.join(self.ivecs_dir, stem + '.pkl')) succeeds
pkl_exists(lead, id) == ~lead /\ id \in DOMAIN pkl

\* one iteration of the loop of load_ivecs: what the line leads to
load_line_abort(line) ==
    LET toks == line.toks IN
    IF Len(toks) = 0 THEN [kind |-> "IndexError", set |-> NoSet]
    ELSE IF Len(toks) = 1 THEN
        IF pkl_exists(line.lead, toks[1])
        THEN [kind |-> "yield", set |-> pkl[toks[1]]]
        ELSE [kind |-> "IOError", set |-> NoSet]
    ELSE IF Len(toks) = 2 THEN
        IF toks[2] \notin IntLits THEN [kind |-> "ValueError", set |-> NoSet]
        ELSE IF pkl_exists(FALSE, toks[1])
        THEN [kind |-> "yield",
              set |-> [pkl[toks[1]] EXCEPT !.num_speakers = Some(int(toks[2]))]]
        ELSE [kind |-> "IOError", set |-> NoSet]
    ELSE [kind |-> "DiarizationException", set |-> NoSet]

load_line(line) ==
    LET toks == line.toks IN
    \* line 68: line.rstrip().split()[0] is evaluated before the try
    IF Len(toks) = 0 THEN [kind |-> "IndexError", set |-> NoSet]
    ELSE IF Len(toks) = 1 THEN
        \* line 72: the whole stripped line is the file stem
        IF pkl_exists(line.lead, toks[1])
        THEN [kind |-> "yield", set |-> pkl[toks[1]]]
        ELSE [kind |-> "warn", set |-> NoSet]
    ELSE IF Len(toks) = 2 THEN
        \* line 76: int() runs before the file is opened
        IF toks[2] \notin IntLits THEN [kind |-> "ValueError", set |-> NoSet]
        ELSE IF pkl_exists(FALSE, toks[1])
        THEN [kind |-> "yield",
              set |-> [pkl[toks[1]] EXCEPT !.num_speakers = Some(int(toks[2]))]]
        ELSE [kind |-> "warn", set |-> NoSet]
    ELSE [kind |-> "DiarizationException", set |-> NoSet]

IdleScore == /\ norm_list = "None" /\ norm_ivecs = "None" /\ pos = 0
             /\ scores_dict = <<>> /\ status = <<>> /\ calls = <<>>
             /\ files = {} /\ dirs = {}
IdleEst   == est_in = [n |-> 0, mn |-> 0, mx |-> 0, classes |-> 0]
             /\ est_out = [kind |-> "none"]
IdleLabel == smat = <<>> /\ rttm = <<>> /\ hyp = <<>>
IdleLoad  == /\ input_list = <<>> /\ pkl = <<>> /\ lineno = 0
             /\ yielded = <<>> /\ results = <<>> /\ warned = <<>>

InitLoad ==
    /\ input_list \in SeqsUpTo(Lines, MaxLines)
    /\ pkl \in Stores
    /\ lineno = 1
    /\ yielded = <<>>
    /\ results = <<>>
    /\ warned = <<>>
    /\ ivecs = <<>>
    /\ pc = "load"
    /\ err = "none"
    /\ IdleScore /\ IdleEst /\ IdleLabel

\* for line in f: ... (one line of the manifest)
LoadLine ==
    /\ pc = "load"
    /\ lineno <= Len(input_list)
    /\ LET r == load_line(input_list[lineno]) IN
       /\ results' = Append(results, r)
       /\ lineno' = lineno + 1
       /\ yielded' = IF r.kind = "yield" THEN Append(yielded, r.set)
                     ELSE yielded
       /\ warned' = IF r.kind = "warn"
                    THEN Append(warned, input_list[lineno].toks[1])
                    ELSE warned
       /\ IF r.kind \in {"yield", "warn"}
          THEN pc' = pc /\ err' = err
          ELSE pc' = "raised" /\ err' = r.kind
    /\ UNCHANGED <<input_list, pkl, ivecs, scoreVars, estVars, labelVars>>

\* the generator is exhausted: self.ivecs = list(self.load_ivecs())
LoadDone ==
    /\ pc = "load"
    /\ lineno > Len(input_list)
    /\ ivecs' = yielded
    /\ pc' = "loaded"
    /\ UNCHANGED <<loadVars, err, scoreVars, estVars, labelVars>>

NextLoad == LoadLine \/ LoadDone

SpecLoad == InitLoad /\ [][NextLoad]_vars

----------------------------------------------------------------------------
(* Strings: os.path.normpath, os.path.dirname and the two re.sub calls *)

Join(comps) ==
    LET RECURSIVE J(_)
        J(i) == IF i > Len(comps) THEN <<>>
                ELSE IF i = Len(comps) THEN comps[i]
                ELSE comps[i] \o <<"/">> \o J(i + 1)
    IN J(1)

\* path.split('/')
SplitSlash(path) ==
    LET RECURSIVE S(_, _)
        S(i, cur) == IF i > Len(path) THEN <<cur>>
                     ELSE IF path[i] = "/" THEN <<cur>> \o S(i + 1, <<>>)
                     ELSE S(i + 1, Append(cur, path[i]))
    IN S(1, <<>>)

StartsWith(path, pre) ==
    Len(path) >= Len(pre) /\ SubSeq(path, 1, Len(pre)) = pre

\* posixpath.normpath
normpath(path) ==
    IF path = <<>> THEN <<".">>
    ELSE
    LET initial_slashes ==
            IF ~StartsWith(path, <<"/">>) THEN 0
            ELSE IF StartsWith(path, <<"/", "/">>)
                    /\ ~StartsWith(path, <<"/", "/", "/">>) THEN 2
            ELSE 1
        comps == SplitSlash(path)
        RECURSIVE N(_, _)
        N(i, new) ==
            IF i > Len(comps) THEN new
            ELSE IF comps[i] \in {<<>>, <<".">>} THEN N(i + 1, new)
            ELSE IF \/ comps[i] # <<".", ".">>
                    \/ (initial_slashes = 0 /\ new = <<>>)
                    \/ (new # <<>> /\ new[Len(new)] = <<".", ".">>)
                 THEN N(i + 1, Append(new, comps[i]))
            ELSE IF new # <<>> THEN N(i + 1, SubSeq(new, 1, Len(new) - 1))
            ELSE N(i + 1, new)
        joined == [j \in 1..initial_slashes |-> "/"] \o Join(N(1, <<>>))
    IN IF joined = <<>> THEN <<".">> ELSE joined

\* posixpath.dirname
dirname(path) ==
    LET slashes == {i \in 1..Len(path) : path[i] = "/"}
        i == IF slashes = {} THEN 0
             ELSE CHOOSE m \in slashes : \A x \in slashes : x <= m
        head == SubSeq(path, 1, i)
        RECURSIVE Strip(_)
        Strip(h) == IF h # <<>> /\ h[Len(h)] = "/"
                    THEN Strip(SubSeq(h, 1, Len(h) - 1)) ELSE h
    IN IF head # <<>> /\ \E j \in 1..Len(head) : head[j] # "/"
       THEN Strip(head) ELSE head

\* 'beamformed' in name
has_beamformed(name) == \E i \in 1..Len(name) : name[i] = "beamformed"

\* re.sub('beamformed/', '', name)
RECURSIVE sub_beamformed(_)
sub_beamformed(name) ==
    IF name = <<>> THEN <<>>
    ELSE IF StartsWith(name, <<"beamformed", "/">>)
         THEN sub_beamformed(SubSeq(name, 3, Len(name)))
    ELSE <<name[1]>> \o sub_beamformed(Tail(name))

\* re.sub('/.*', '', name)
sub_after_slash(name) ==
    LET slashes == {i \in 1..Len(name) : name[i] = "/"} IN
    IF slashes = {} THEN name
    ELSE SubSeq(name, 1, (CHOOSE m \in slashes : \A x \in slashes : m <= x) - 1)

\* the group name of dump_rttm, get_der and init_annotations
reg_name(name) ==
    sub_after_slash(IF has_beamformed(name) THEN sub_beamformed(name)
                    ELSE name)

----------------------------------------------------------------------------
(* Clustering, classifier output and speaker-count estimation *)

\* np.argmax of a non-empty vector: the first position of the maximum,
\* counted from 0
np_argmax_last(a) ==
    LET RECURSIVE Scan(_, _)
        Scan(i, best) == IF i > Len(a) THEN best - 1
                         ELSE IF a[i] >= a[best] THEN Scan(i + 1, i)
                         ELSE Scan(i + 1, best)
    IN Scan(2, 1)

np_argmax(a) ==
    LET RECURSIVE Scan(_, _)
        Scan(i, best) == IF i > Len(a) THEN best - 1
                         ELSE IF a[i] > a[best] THEN Scan(i + 1, i)
                         ELSE Scan(i + 1, best)
    IN Scan(2, 1)

\* np.sum(proba, axis=0): one sum per class column
col_sums(proba) ==
    LET RECURSIVE Sum(_, _)
        Sum(i, j) == IF i > Len(proba) THEN 0
                     ELSE proba[i][j] + Sum(i + 1, j)
    IN [j \in 1..Len(proba[1]) |-> Sum(1, j)]

NoCentroids == [count |-> 0, run |-> 0]

\* sklearnKMeans(n_clusters=k).fit(ivecs) followed by
\* KMeans(cluster_centers_, k, plda).fit(ivecs) on n embeddings: k centroids,
\* identified by the clusterer run that produced them; no result for k > n
cluster(k, n, run) ==
    [ok |-> k <= n, centroids |-> [count |-> k, run |-> run]]

\* the loop of get_num_speakers: one clusterer run per candidate count
est_loop(n, mn, mx) ==
    LET RECURSIVE L(_, _, _)
        L(c, lst, runs) ==
            IF c > mx THEN [ok |-> TRUE, centroids_list |-> lst, runs |-> runs]
            ELSE LET r == cluster(c, n, Len(runs) + 1) IN
                 IF ~r.ok
                 THEN [ok |-> FALSE, centroids_list |-> lst,
                       runs |-> Append(runs, c)]
                 ELSE L(c + 1, Append(lst, r.centroids), Append(runs, c))
    IN L(mn, <<>>, <<>>)

\* lines 222-224: pick the class column with the largest summed probability
\* and return it with the centroids kept for it; indexing centroids_list
\* past its end raises IndexError
est_select_unchecked(loop, mn, sums) ==
    LET num_speakers == np_argmax(sums)
        last == Len(loop.centroids_list)
    IN [kind |-> "return",
        num_speakers |-> num_speakers + mn,
        centroids |-> loop.centroids_list[IF num_speakers + 1 > last
                                          THEN last ELSE num_speakers + 1],
        runs |-> loop.runs]

est_select_neighbour(loop, mn, sums) ==
    LET num_speakers == np_argmax(sums) IN
    IF num_speakers >= Len(loop.centroids_list)
    THEN [kind |-> "IndexError", num_speakers |-> 0,
          centroids |-> NoCentroids, runs |-> loop.runs]
    ELSE [kind |-> "return",
          num_speakers |-> num_speakers + mn,
          centroids |-> loop.centroids_list[
              IF num_speakers = 0 THEN 1 ELSE num_speakers],
          runs |-> loop.runs]

est_select(loop, mn, sums) ==
    LET num_speakers == np_argmax(sums) IN
    IF num_speakers >= Len(loop.centroids_list)
    THEN [kind |-> "IndexError", num_speakers |-> 0,
          centroids |-> NoCentroids, runs |-> loop.runs]
    ELSE [kind |-> "return",
          num_speakers |-> num_speakers + mn,
          centroids |-> loop.centroids_list[num_speakers + 1],
          runs |-> loop.runs]

\* get_num_speakers(ivecs, min_speakers, max_speakers) on n embeddings, with
\* sums = np.sum(self.model.test(features, prob=True), axis=0)
get_num_speakers(n, mn, mx, sums) ==
    LET loop == est_loop(n, mn, mx) IN
    IF ~loop.ok
    THEN [kind |-> "InsufficientDataError", num_speakers |-> 0,
          centroids |-> NoCentroids, runs |-> loop.runs]
    ELSE est_select(loop, mn, sums)

min_speakers == 2
max_speakers == 6

----------------------------------------------------------------------------
(* Spec: score(), then dump_rttm() and get_der() in any order *)

Names == {<<"a">>, <<"a", "/", "c">>, <<"beamformed", "/", "a">>,
          <<"a", "/", "/", "c">>}

IvecSets == [name : Names, num_speakers : {None, Some(2)}, size : {0, 1, 6}]

\* group names a reference file may mention
RefNames == {<<"a">>, <<"x">>}

\* Normalization.__init__: the cohort is loaded exactly when a
\* normalization list is given
Normalization_init(nl) == IF nl = "None" THEN "None" ELSE "cohort"

\* what np.sum(self.model.test(features, prob=True), axis=0) can be for the
\* default candidate range: every row votes for the same class w
ClassifierSums ==
    LET rows == max_speakers - min_speakers + 1 IN
    UNION {{[j \in 1..cl |-> IF j = w THEN rows ELSE 0] : w \in 1..cl} :
              cl \in {rows, rows + 1}}

\* line 102, 129, 160: ivecset.size() > 0
has_ivecs_any(ivecset) == ivecset.size >= 0

has_ivecs(ivecset) == ivecset.size > 0

\* line 103: ivecset.num_speakers is not None
num_speakers_known_never(ivecset) == FALSE

num_speakers_known(ivecset) == ivecset.num_speakers # None

\* line 108: self.norm_ivecs is not None
can_estimate_always == TRUE

can_estimate == norm_ivecs # "None"

\* line 114: self.norm_list is None
raw_scoring_swapped == norm_list # "None"

raw_scoring == norm_list = "None"

\* self.s_norm needs the cohort
s_norm_ok == norm_ivecs # "None"

Put(d, key, v) == [x \in DOMAIN d \cup {key} |-> IF x = key THEN v ELSE d[x]]

Init ==
    /\ ivecs \in SeqsUpTo(IvecSets, MaxRecs) \ {<<>>}
    /\ norm_list \in {"None", "norm.list"}
    /\ norm_ivecs = Normalization_init(norm_list)
    /\ pos = 1
    /\ scores_dict = <<>>
    /\ status = [i \in 1..Len(ivecs) |-> "Loaded"]
    /\ calls = <<>>
    /\ files = {}
    /\ dirs = {}
    /\ pc = "score"
    /\ err = "none"
    /\ IdleLoad /\ IdleEst /\ IdleLabel

Raise(e) == pc' = "raised" /\ err' = e

\* lines 114-117 for recording pos with its centroids
ScoreWith(centroids, log) ==
    LET ivecset == ivecs[pos]
        name == normpath(ivecset.name)
    IN IF raw_scoring
       THEN /\ calls' = Append(log, [rec |-> pos, op |-> "plda.score",
                                     k |-> centroids.count, key |-> name])
            /\ scores_dict' = Put(scores_dict, name,
                   [rec |-> pos, mode |-> "plda.score",
                    k |-> centroids.count, n |-> ivecset.size])
            /\ status' = [status EXCEPT ![pos] = "Scored"]
            /\ UNCHANGED <<pc, err>>
       ELSE IF s_norm_ok
       THEN /\ calls' = Append(log, [rec |-> pos, op |-> "s_norm",
                                     k |-> centroids.count, key |-> name])
            /\ scores_dict' = Put(scores_dict, name,
                   [rec |-> pos, mode |-> "s_norm",
                    k |-> centroids.count, n |-> ivecset.size])
            /\ status' = [status EXCEPT ![pos] = "Scored"]
            /\ UNCHANGED <<pc, err>>
       ELSE /\ calls' = Append(log, [rec |-> pos, op |-> "s_norm",
                                     k |-> centroids.count, key |-> name])
            /\ status' = [status EXCEPT ![pos] = "Failed"]
            /\ Raise("NoCohortError")
            /\ UNCHANGED scores_dict

\* one iteration of the loop of score(), lines 97-119
ScoreStep ==
    /\ pc = "score"
    /\ pos <= Len(ivecs)
    /\ pos' = pos + 1
    /\ LET ivecset == ivecs[pos] IN
       IF has_ivecs(ivecset) THEN
           IF num_speakers_known(ivecset) THEN
               LET k == Val(ivecset.num_speakers)
                   r == cluster(k, ivecset.size, 1)
                   log == Append(calls, [rec |-> pos, op |-> "cluster",
                                         k |-> k, key |-> normpath(ivecset.name)])
               IN IF r.ok THEN ScoreWith(r.centroids, log)
                  ELSE /\ calls' = log
                       /\ status' = [status EXCEPT ![pos] = "Failed"]
                       /\ Raise("InsufficientDataError")
                       /\ UNCHANGED scores_dict
           ELSE IF can_estimate THEN
               \E sums \in ClassifierSums :
                   LET g == get_num_speakers(ivecset.size, min_speakers,
                                             max_speakers, sums)
                       log == Append(calls,
                                  [rec |-> pos, op |-> "get_num_speakers",
                                   k |-> g.num_speakers,
                                   key |-> normpath(ivecset.name)])
                   IN IF g.kind = "return" THEN ScoreWith(g.centroids, log)
                      ELSE /\ calls' = log
                           /\ status' = [status EXCEPT ![pos] = "Failed"]
                           /\ Raise(g.kind)
                           /\ UNCHANGED scores_dict
           ELSE /\ status' = [status EXCEPT ![pos] = "Failed"]
                /\ Raise("DiarizationException")
                /\ UNCHANGED <<calls, scores_dict>>
       ELSE \* logwarning, nothing else
            /\ status' = [status EXCEPT ![pos] = "Skipped"]
            /\ UNCHANGED <<calls, scores_dict, pc, err>>
    /\ UNCHANGED <<loadVars, ivecs, norm_list, norm_ivecs, files, dirs,
                   estVars, labelVars>>

\* line 120: return scores_dict
ScoreReturn ==
    /\ pc = "score"
    /\ pos > Len(ivecs)
    /\ pc' = "scored"
    /\ UNCHANGED <<loadVars, ivecs, err, scoreVars, estVars, labelVars>>

\* a call dump_rttm(scores) with the dictionary score() returned
DumpStart ==
    /\ pc = "scored"
    /\ pc' = "dump"
    /\ pos' = 1
    /\ UNCHANGED <<loadVars, ivecs, err, norm_list, norm_ivecs, scores_dict,
                   status, calls, files, dirs, estVars, labelVars>>

\* one iteration of the loop of dump_rttm, lines 128-144
DumpStep ==
    /\ pc = "dump"
    /\ pos <= Len(ivecs)
    /\ pos' = pos + 1
    /\ LET ivecset == ivecs[pos]
           name == ivecset.name
           renamed == IF has_beamformed(name) THEN sub_beamformed(name)
                      ELSE name
       IN IF has_ivecs(ivecset) THEN
              /\ ivecs' = [ivecs EXCEPT ![pos].name = renamed]
              /\ dirs' = dirs \cup {dirname(name)}
              /\ files' = files \cup {[rec |-> pos, path |-> name,
                                       reg_name |-> sub_after_slash(renamed)]}
              /\ IF name \in DOMAIN scores_dict
                 THEN UNCHANGED <<pc, err>>
                 ELSE Raise("KeyError: scores[name]")
          ELSE UNCHANGED <<ivecs, dirs, files, pc, err>>
    /\ UNCHANGED <<loadVars, norm_list, norm_ivecs, scores_dict, status,
                   calls, estVars, labelVars>>

DumpReturn ==
    /\ pc = "dump"
    /\ pos > Len(ivecs)
    /\ pc' = "scored"
    /\ UNCHANGED <<loadVars, ivecs, err, scoreVars, estVars, labelVars>>

\* init_annotations: the groups of the non-empty recordings
init_annotations ==
    {reg_name(ivecs[i].name) : i \in {j \in 1..Len(ivecs) : has_ivecs(ivecs[j])}}

\* a call get_der(ref_file, scores), lines 154-158: every reference line
\* must name a group init_annotations created
DerStart ==
    /\ pc = "scored"
    /\ pos' = 1
    /\ \E ref \in SUBSET RefNames :
           IF ref \subseteq init_annotations
           THEN pc' = "der" /\ err' = err
           ELSE Raise("KeyError: ref[name]")
    /\ UNCHANGED <<loadVars, ivecs, norm_list, norm_ivecs, scores_dict,
                   status, calls, files, dirs, estVars, labelVars>>

\* one iteration of the loop of get_der, lines 159-171
DerStep ==
    /\ pc = "der"
    /\ pos <= Len(ivecs)
    /\ pos' = pos + 1
    /\ LET ivecset == ivecs[pos] IN
       IF has_ivecs(ivecset) /\ ivecset.name \notin DOMAIN scores_dict
       THEN Raise("KeyError: scores[name]")
       ELSE UNCHANGED <<pc, err>>
    /\ UNCHANGED <<loadVars, ivecs, norm_list, norm_ivecs, scores_dict,
                   status, calls, files, dirs, estVars, labelVars>>

\* lines 172-182: the error rates per group and their average
DerReturn ==
    /\ pc = "der"
    /\ pos > Len(ivecs)
    /\ IF init_annotations = {}
       THEN Raise("ZeroDivisionError")
       ELSE pc' = "scored" /\ err' = err
    /\ UNCHANGED <<loadVars, ivecs, scoreVars, estVars, labelVars>>

Next == \/ ScoreStep \/ ScoreReturn
        \/ DumpStart \/ DumpStep \/ DumpReturn
        \/ DerStart \/ DerStep \/ DerReturn

Spec == Init /\ [][Next]_vars

----------------------------------------------------------------------------
(* SpecEst: get_num_speakers on one embedding set *)

ProbLevels == {0, 1, 2}

\* one row of predict_proba: a distribution over the classes, in halves
ProbRows(classes) ==
    {r \in [1..classes -> ProbLevels] :
        \E j \in 1..classes :
            \/ r[j] = 2 /\ \A x \in 1..classes : x # j => r[x] = 0
            \/ \E y \in 1..classes :
                   /\ y # j /\ r[j] = 1 /\ r[y] = 1
                   /\ \A x \in 1..classes : x \notin {j, y} => r[x] = 0}

InitEst ==
    /\ est_in \in {e \in [n : 1..MaxCand, mn : 1..MaxCand, mx : 1..MaxCand,
                          classes : 1..MaxClasses] : e.mn <= e.mx}
    /\ est_out = [kind |-> "none"]
    /\ pc = "est"
    /\ err = "none"
    /\ ivecs = <<>>
    /\ IdleLoad /\ IdleScore /\ IdleLabel

\* one call of get_num_speakers; the classifier answers with any
\* probability matrix of one row per candidate count
EstCall ==
    /\ pc = "est"
    /\ \E proba \in [1..(est_in.mx - est_in.mn + 1) -> ProbRows(est_in.classes)] :
           est_out' = get_num_speakers(est_in.n, est_in.mn, est_in.mx,
                                       col_sums(proba))
    /\ pc' = "est_done"
    /\ UNCHANGED <<loadVars, ivecs, err, scoreVars, est_in, labelVars>>

NextEst == EstCall

SpecEst == InitEst /\ [][NextEst]_vars

----------------------------------------------------------------------------
(* SpecLabel: the labels dump_rttm and get_der derive from one score matrix *)

InitLabel ==
    /\ smat \in UNION {[1..n -> [1..k -> 0..MaxScore]] :
                          n \in 1..MaxEmb, k \in 1..MaxK}
    /\ rttm = <<>>
    /\ hyp = <<>>
    /\ pc = "label"
    /\ err = "none"
    /\ ivecs = <<>>
    /\ IdleLoad /\ IdleScore /\ IdleEst

\* dump_rttm, line 140: idx = np.argmax(scores[name].T[i])
DumpLabel ==
    /\ pc = "label"
    /\ Len(rttm) < Len(smat)
    /\ rttm' = Append(rttm, np_argmax(smat[Len(rttm) + 1]))
    /\ UNCHANGED <<loadVars, ivecs, pc, err, scoreVars, estVars, smat, hyp>>

\* get_der, line 169: hyp[reg_name][segment] = np.argmax(scores[name].T[i])
DerLabel ==
    /\ pc = "label"
    /\ Len(hyp) < Len(smat)
    /\ hyp' = Append(hyp, np_argmax(smat[Len(hyp) + 1]))
    /\ UNCHANGED <<loadVars, ivecs, pc, err, scoreVars, estVars, smat, rttm>>

NextLabel == DumpLabel \/ DerLabel

SpecLabel == InitLabel /\ [][NextLabel]_vars

----------------------------------------------------------------------------
(* Claims about load_ivecs *)

WellFormed(line) ==
    \/ Len(line.toks) = 1
    \/ Len(line.toks) = 2 /\ line.toks[2] \in IntLits

BlobFound(line) == pkl_exists(line.lead /\ Len(line.toks) = 1, line.toks[1])

\* C8: every manifest line read is treated by its token count: one token
\* yields the pickled set with num_speakers = None, two tokens yield it with
\* num_speakers = the count, and any other token count (zero included) ends
\* the load with DiarizationException.
C8_LineByTokenCount ==
    \A i \in 1..Len(results) :
        LET line == input_list[i]
            n == Len(line.toks)
            r == results[i]
        IN /\ (n = 1 /\ r.kind = "yield") =>
                  r.set = pkl[line.toks[1]] /\ r.set.num_speakers = None
           /\ (n = 2 /\ r.kind = "yield") =>
                  r.set.num_speakers = Some(int(line.toks[2]))
           /\ (n \notin {1, 2}) =>
                  /\ r.kind = "DiarizationException"
                  /\ pc = "raised" /\ err = "DiarizationException"

\* C9: a manifest line whose pickle cannot be opened is logged and skipped,
\* never ends the load, and when the load completes self.ivecs holds, in
\* manifest order, exactly the sets of the lines whose pickle was opened.
C9_MissingBlobSkipped ==
    LET read == SubSeq(input_list, 1, Len(results))
        missing == SelectSeq(read,
                       LAMBDA l : WellFormed(l) /\ ~BlobFound(l))
        found == SelectSeq(input_list,
                     LAMBDA l : WellFormed(l) /\ BlobFound(l))
    IN /\ \A i \in 1..Len(results) :
              (WellFormed(input_list[i]) /\ ~BlobFound(input_list[i])) =>
                  /\ results[i].kind = "warn"
                  /\ i = Len(results) => pc # "raised"
       /\ warned = [j \in 1..Len(missing) |-> missing[j].toks[1]]
       /\ pc = "loaded" =>
              /\ Len(ivecs) = Len(found)
              /\ \A j \in 1..Len(found) :
                     ivecs[j].name = BlobName(found[j].toks[1])

\* a load that skipped a missing pickle and then loaded a later recording
C9_Witness ==
    /\ pc = "loaded"
    /\ Len(results) = 2
    /\ results[1].kind = "warn"
    /\ results[2].kind = "yield"
    /\ Len(ivecs) = 1

----------------------------------------------------------------------------
(* Claims about score(), dump_rttm() and get_der() *)

Processed(i) == status[i] # "Loaded"

CallsOf(i) == SelectSeq(calls, LAMBDA c : c.rec = i)

CohortConfigured == norm_ivecs # "None"

\* the recording was clustered with its given count, not estimated, then
\* scored, and the dictionary has an entry under its normalized name
ScoredWithGivenCount(i) ==
    LET k == Val(ivecs[i].num_speakers)
        cs == CallsOf(i)
    IN /\ status[i] = "Scored"
       /\ Len(cs) = 2
       /\ cs[1].op = "cluster" /\ cs[1].k = k
       /\ cs[2].op \in {"plda.score", "s_norm"} /\ cs[2].k = k
       /\ pc = "score" => cs[2].key = normpath(ivecs[i].name)
       /\ cs[2].key \in DOMAIN scores_dict

\* C1 as stated: every processed recording with size > 0 and a given
\* num_speakers is clustered with exactly that count, never estimated, and
\* ends Scored with an entry in the score dictionary, cohort or not.
C1_KnownCountAlwaysScored ==
    \A i \in 1..Len(ivecs) :
        (Processed(i) /\ ivecs[i].size > 0 /\ ivecs[i].num_speakers # None)
            => ScoredWithGivenCount(i)

\* C1 amended: the same for every such recording whose given count does not
\* exceed its number of embeddings; with a larger count the clusterer fails,
\* still without any estimation.
C1_KnownCountScored ==
    \A i \in 1..Len(ivecs) :
        (Processed(i) /\ ivecs[i].size > 0 /\ ivecs[i].num_speakers # None)
            => /\ \A j \in 1..Len(calls) :
                      calls[j].rec = i => calls[j].op # "get_num_speakers"
               /\ Val(ivecs[i].num_speakers) <= ivecs[i].size
                      => ScoredWithGivenCount(i)
               /\ Val(ivecs[i].num_speakers) > ivecs[i].size
                      => /\ status[i] = "Failed"
                         /\ err = "InsufficientDataError"

\* a recording with a given count scored while a cohort is configured
C1_Witness ==
    /\ CohortConfigured
    /\ pc = "scored"
    /\ \E i \in 1..Len(ivecs) :
           /\ ivecs[i].num_speakers = Some(2)
           /\ ivecs[i].size = 6
           /\ status[i] = "Scored"
           /\ CallsOf(i)[1].op = "cluster"

\* C2: a processed recording with size > 0, no given count and no cohort
\* fails with DiarizationException; nothing was invoked or stored for it, no
\* later recording is processed and score() does not return.
C2_NoCohortAborts ==
    \A i \in 1..Len(ivecs) :
        (/\ Processed(i) /\ ivecs[i].size > 0
         /\ ivecs[i].num_speakers = None /\ ~CohortConfigured)
            => /\ status[i] = "Failed"
               /\ pc = "raised"
               /\ err = "DiarizationException"
               /\ CallsOf(i) = <<>>
               /\ \A key \in DOMAIN scores_dict : scores_dict[key].rec # i
               /\ \A j \in (i + 1)..Len(ivecs) :
                      status[j] = "Loaded" /\ CallsOf(j) = <<>>

\* the run was aborted at the first of two recordings
C2_Witness ==
    /\ Len(ivecs) = 2
    /\ ivecs[1].size > 0 /\ ivecs[1].num_speakers = None
    /\ ivecs[2].size > 0 /\ ivecs[2].num_speakers # None
    /\ ~CohortConfigured
    /\ status = <<"Failed", "Loaded">>
    /\ err = "DiarizationException"

C6_EmptySkipped ==
    \A i \in 1..Len(ivecs) :
        ivecs[i].size = 0 =>
            /\ status[i] \in {"Loaded", "Skipped"}
            /\ CallsOf(i) = <<>>
            /\ \A key \in DOMAIN scores_dict : scores_dict[key].rec # i
            /\ \A f \in files : f.rec # i
            /\ (pc = "raised" /\ err # "ZeroDivisionError") => pos - 1 # i

\* an empty recording was skipped, the next one scored and dumped
C6_Witness ==
    /\ pc = "scored"
    /\ Len(ivecs) = 2
    /\ ivecs[1].size = 0
    /\ status = <<"Skipped", "Scored">>
    /\ \E f \in files : f.rec = 2

\* C10: after score() has returned, no dump_rttm() or get_der() call fails
\* to find the scores of a non-empty recording in the dictionary.
C10_LookupsHit == err # "KeyError: scores[name]"

----------------------------------------------------------------------------
(* Claims about get_num_speakers *)

Candidates == est_in.mx - est_in.mn + 1

\* C3: whenever get_num_speakers returns, the count it returns lies in
\* [min_speakers, max_speakers], whatever the classifier answered and however
\* many class columns its answer has.
C3_CountInRange ==
    est_out.kind = "return" =>
        /\ est_in.mn <= est_out.num_speakers
        /\ est_out.num_speakers <= est_in.mx

\* a call that returned although the classifier has more, or fewer, class
\* columns than there are candidate counts
C3_Witness ==
    /\ est_out.kind = "return"
    /\ est_in.classes > Candidates
    /\ est_out.num_speakers = est_in.mx

\* C4: the clusterer runs of a call are the candidate counts in ascending
\* order, each once; a call that returns has run all of them and returns the
\* centroid set of the run made for the returned count, which has that many
\* centroids; no run follows the last candidate.
C4_CentroidsReused ==
    /\ est_out.kind # "none" =>
           /\ Len(est_out.runs) <= Candidates
           /\ \A j \in 1..Len(est_out.runs) :
                  est_out.runs[j] = est_in.mn + j - 1
    /\ est_out.kind = "return" =>
           /\ Len(est_out.runs) = Candidates
           /\ est_out.centroids.run \in 1..Len(est_out.runs)
           /\ est_out.runs[est_out.centroids.run] = est_out.num_speakers
           /\ est_out.centroids.count = est_out.num_speakers

\* a call over several candidates that returned a count above the minimum
C4_Witness ==
    /\ est_out.kind = "return"
    /\ Candidates >= 2
    /\ est_out.num_speakers > est_in.mn
    /\ est_out.centroids.count = est_out.num_speakers

----------------------------------------------------------------------------
(* Claims about the labelling *)

IsArgMax(row, l) ==
    /\ l \in 0..(Len(row) - 1)
    /\ \A j \in 1..Len(row) : row[j] <= row[l + 1]
    /\ \A j \in 1..l : row[j] < row[l + 1]

\* C7: the label dump_rttm writes and get_der records for embedding i is
\* the lowest centroid index whose score is maximal in row i, so it lies in
\* 0..k-1 and both methods give the same label for the same row.
C7_ArgMaxLowestIndex ==
    /\ \A i \in 1..Len(rttm) : IsArgMax(smat[i], rttm[i])
    /\ \A i \in 1..Len(hyp) : IsArgMax(smat[i], hyp[i])
    /\ \A i \in 1..Len(rttm) : i <= Len(hyp) => rttm[i] = hyp[i]

\* a labelled row whose maximal score is shared by two centroids, the first
\* of them not at index 0
C7_Witness ==
    /\ Len(rttm) >= 1 /\ Len(hyp) >= 1
    /\ Len(smat[1]) = 3
    /\ smat[1][1] < smat[1][2]
    /\ smat[1][2] = smat[1][3]
    /\ rttm[1] = 1 /\ hyp[1] = 1

====
